---- MODULE Spec2Model ----
(***************************************************************************)
(* Model of FioPhotoMatcher (src/main.py): the variant generator, the      *)
(* name shortener, the four-stage match engine, the directory search and   *)
(* the batch processor.                                                    *)
(*                                                                         *)
(* A string is a sequence of characters; a character is a short token:     *)
(*   Kazakh letters (the keys of char_mapping)                             *)
(*     "K1" "k1" = U+049A/U+049B   "U1" "u1" = U+04B0/U+04B1               *)
(*     "A1" "a1" = U+04D8/U+04D9   "N1" "n1" = U+04A2/U+04A3               *)
(*     "G1" "g1" = U+0492/U+0493   "I1" "i1" = U+0406/U+0456               *)
(*     "O1" "o1" = U+04E8/U+04E9   "U2" "u2" = U+04AE/U+04AF               *)
(*   Cyrillic letters (the values of char_mapping)                         *)
(*     "K" "k", "U" "u", "A" "a", "N" "n", "G" "g", "Y" "y", "O" "o"       *)
(*   Latin letters of the image extensions, lower "j_" "p_" "g_" "e_" "n_" *)
(*     and upper "J_" "P_" "G_" "E_" "N_"; "t_" "x_" for a .txt entry      *)
(*   " " the space, "TAB" another whitespace character, "." the dot.       *)
(* The similarity field of a match record is not modelled: no property     *)
(* below reads it and it decides no control flow.                          *)
(***************************************************************************)
EXTENDS Integers, Sequences, FiniteSets, TLC

(* ------------------------------ bounds -------------------------------- *)
MaxFioLen == 5
MaxStemLen == 5
MaxSubs == 2
MaxStrLen == 4
MaxK == 3

(* --------------------------- string helpers --------------------------- *)
\* str.lower() on the characters of the model's alphabet
to_lower ==
    ("K1" :> "k1") @@ ("U1" :> "u1") @@ ("A1" :> "a1") @@ ("N1" :> "n1") @@
    ("G1" :> "g1") @@ ("I1" :> "i1") @@ ("O1" :> "o1") @@ ("U2" :> "u2") @@
    ("K" :> "k") @@ ("U" :> "u") @@ ("A" :> "a") @@ ("N" :> "n") @@
    ("G" :> "g") @@ ("Y" :> "y") @@ ("O" :> "o") @@
    ("J_" :> "j_") @@ ("P_" :> "p_") @@ ("G_" :> "g_") @@ ("E_" :> "e_") @@
    ("N_" :> "n_")

Lower(s) == [x \in DOMAIN s |-> IF s[x] \in DOMAIN to_lower THEN to_lower[s[x]] ELSE s[x]]

\* Python's `a in b` for strings: a is a contiguous substring of b
Contains(a, b) ==
    \E off \in 0..(Len(b) - Len(a)) : SubSeq(b, off + 1, off + Len(a)) = a

\* str.endswith(suffix)
EndsWith(s, suffix) ==
    /\ Len(suffix) <= Len(s)
    /\ SubSeq(s, Len(s) - Len(suffix) + 1, Len(s)) = suffix

EXT_JPG == <<".", "j_", "p_", "g_">>
EXT_JPEG == <<".", "j_", "p_", "e_", "g_">>
EXT_PNG == <<".", "p_", "n_", "g_">>

\* file.lower().endswith(('.jpg', '.jpeg', '.png'))
IsImage(file) ==
    \E e \in {EXT_JPG, EXT_JPEG, EXT_PNG} : EndsWith(Lower(file), e)

IsSpace(c) == c \in {" ", "TAB"}

\* str.strip(): leading and trailing whitespace removed
RECURSIVE Strip(_)
Strip(s) ==
    IF s = <<>> THEN s
    ELSE IF IsSpace(s[1]) THEN Strip(Tail(s))
    ELSE IF IsSpace(s[Len(s)]) THEN Strip(SubSeq(s, 1, Len(s) - 1))
    ELSE s

\* str.split(): the maximal runs of non-whitespace characters, in order
RECURSIVE Split(_)
Split(s) ==
    IF s = <<>> THEN <<>>
    ELSE IF IsSpace(s[1]) THEN Split(Tail(s))
    ELSE LET stops == {x \in 1..Len(s) : IsSpace(s[x])}
             last == IF stops = {} THEN Len(s)
                     ELSE (CHOOSE x \in stops : \A y \in stops : x <= y) - 1
         IN  <<SubSeq(s, 1, last)>> \o Split(SubSeq(s, last + 1, Len(s)))

(* ------------------------- FioPhotoMatcher ---------------------------- *)
char_mapping ==
    ("K1" :> "K") @@ ("k1" :> "k") @@
    ("U1" :> "U") @@ ("u1" :> "u") @@
    ("A1" :> "A") @@ ("a1" :> "a") @@
    ("N1" :> "N") @@ ("n1" :> "n") @@
    ("G1" :> "G") @@ ("g1" :> "g") @@
    ("I1" :> "Y") @@ ("i1" :> "y") @@
    ("O1" :> "O") @@ ("o1" :> "o") @@
    ("U2" :> "U") @@ ("u2" :> "u")

\* os.path.splitext(filename)[0]: the extension starts at the last dot,
\* unless only dots precede it
remove_extension(filename) ==
    LET dots == {x \in 1..Len(filename) : filename[x] = "."}
    IN  IF dots = {} THEN filename
        ELSE LET dotIndex == CHOOSE x \in dots : \A y \in dots : y <= x
             IN  IF \E x \in 1..(dotIndex - 1) : filename[x] # "."
                 THEN SubSeq(filename, 1, dotIndex - 1)
                 ELSE filename

shorten_fio(fio) ==
    LET parts == Split(fio)
    IN  IF Len(parts) >= 2 THEN parts[1] \o <<" ">> \o parts[2] ELSE fio

\* itertools.combinations(indices, r), as the set of position sets
Combinations(indices, r) == {c \in SUBSET indices : Cardinality(c) = r}

\* the variant built for one combo: mapping applied at the chosen positions
Substitute(s, mapping, combo) ==
    [x \in DOMAIN s |-> IF x \in combo THEN mapping[s[x]] ELSE s[x]]

\* generate_variants_combinations with `range(1, max_subs)`: the largest
\* combination size is never tried
generate_variants_short_range(s, mapping, max_subs) ==
    LET indices == {x \in DOMAIN s : s[x] \in DOMAIN mapping}
    IN  UNION {{Substitute(s, mapping, combo) : combo \in Combinations(indices, r)}
               : r \in 1..(max_subs - 1)}

\* the set `variants`; list(variants) lists it once each in an order the
\* caller cannot rely on, so the callers below choose among its elements
generate_variants_combinations(s, mapping, max_subs) ==
    LET indices == {x \in DOMAIN s : s[x] \in DOMAIN mapping}
    IN  UNION {{Substitute(s, mapping, combo) : combo \in Combinations(indices, r)}
               : r \in 1..max_subs}

\* the tuple a stage returns; variant_used is the string that was found
Outcome(found, method, variant) ==
    [found |-> found, method |-> method, variant_used |-> variant]

\* `for variant in variants: if variant.lower() in file_base.lower()`: the
\* variants one of which the loop returns (the first in the set's order)
MatchingVariants(variants, file_base) ==
    {v \in variants : Contains(Lower(v), Lower(file_base))}

\* iterative_match with the short-name exact stage tried before the
\* full-name substitution stage
iterative_match_short_first(fio, filename, max_subs) ==
    LET file_base == remove_extension(filename)
        variants == generate_variants_combinations(fio, char_mapping, max_subs)
        fio_short == shorten_fio(fio)
        variants_short == generate_variants_combinations(fio_short, char_mapping, max_subs)
    IN  IF Contains(Lower(fio), Lower(file_base))
        THEN {Outcome(TRUE, "Full FIO exact", fio)}
        ELSE IF Contains(Lower(fio_short), Lower(file_base))
        THEN {Outcome(TRUE, "Short FIO exact", fio_short)}
        ELSE IF MatchingVariants(variants, file_base) # {}
        THEN {Outcome(TRUE, "Full FIO substitution (combination)", v)
              : v \in MatchingVariants(variants, file_base)}
        ELSE IF MatchingVariants(variants_short, file_base) # {}
        THEN {Outcome(TRUE, "Short FIO substitution (combination)", v)
              : v \in MatchingVariants(variants_short, file_base)}
        ELSE {Outcome(FALSE, "No match", <<>>)}

\* iterative_match with a case-sensitive first stage (`fio in file_base`)
iterative_match_case_sensitive(fio, filename, max_subs) ==
    LET file_base == remove_extension(filename)
        variants == generate_variants_combinations(fio, char_mapping, max_subs)
        fio_short == shorten_fio(fio)
        variants_short == generate_variants_combinations(fio_short, char_mapping, max_subs)
    IN  IF Contains(fio, file_base)
        THEN {Outcome(TRUE, "Full FIO exact", fio)}
        ELSE IF MatchingVariants(variants, file_base) # {}
        THEN {Outcome(TRUE, "Full FIO substitution (combination)", v)
              : v \in MatchingVariants(variants, file_base)}
        ELSE IF Contains(Lower(fio_short), Lower(file_base))
        THEN {Outcome(TRUE, "Short FIO exact", fio_short)}
        ELSE IF MatchingVariants(variants_short, file_base) # {}
        THEN {Outcome(TRUE, "Short FIO substitution (combination)", v)
              : v \in MatchingVariants(variants_short, file_base)}
        ELSE {Outcome(FALSE, "No match", <<>>)}

\* iterative_match whose substitution stages return the name they started
\* from in place of the variant that was found
iterative_match_reports_source(fio, filename, max_subs) ==
    LET file_base == remove_extension(filename)
        variants == generate_variants_combinations(fio, char_mapping, max_subs)
        fio_short == shorten_fio(fio)
        variants_short == generate_variants_combinations(fio_short, char_mapping, max_subs)
    IN  IF Contains(Lower(fio), Lower(file_base))
        THEN {Outcome(TRUE, "Full FIO exact", fio)}
        ELSE IF MatchingVariants(variants, file_base) # {}
        THEN {Outcome(TRUE, "Full FIO substitution (combination)", fio)}
        ELSE IF Contains(Lower(fio_short), Lower(file_base))
        THEN {Outcome(TRUE, "Short FIO exact", fio_short)}
        ELSE IF MatchingVariants(variants_short, file_base) # {}
        THEN {Outcome(TRUE, "Short FIO substitution (combination)", fio_short)}
        ELSE {Outcome(FALSE, "No match", <<>>)}

\* the outcomes iterative_match can return: one when an exact stage or no
\* stage succeeds, one per matching variant when a substitution stage does
iterative_match(fio, filename, max_subs) ==
    LET file_base == remove_extension(filename)
        variants == generate_variants_combinations(fio, char_mapping, max_subs)
        fio_short == shorten_fio(fio)
        variants_short == generate_variants_combinations(fio_short, char_mapping, max_subs)
    IN  IF Contains(Lower(fio), Lower(file_base))
        THEN {Outcome(TRUE, "Full FIO exact", fio)}
        ELSE IF MatchingVariants(variants, file_base) # {}
        THEN {Outcome(TRUE, "Full FIO substitution (combination)", v)
              : v \in MatchingVariants(variants, file_base)}
        ELSE IF Contains(Lower(fio_short), Lower(file_base))
        THEN {Outcome(TRUE, "Short FIO exact", fio_short)}
        ELSE IF MatchingVariants(variants_short, file_base) # {}
        THEN {Outcome(TRUE, "Short FIO substitution (combination)", v)
              : v \in MatchingVariants(variants_short, file_base)}
        ELSE {Outcome(FALSE, "No match", <<>>)}

\* Python's None in the `file` position of a search result; no directory
\* entry is the empty string, and `if file:` is false for exactly this value
None == <<>>

SearchResult(file, method, variant) ==
    [file |-> file, method |-> method, variant_used |-> variant]

\* the loop of search_photo_for_fio_iterative without its extension filter
RECURSIVE SearchFrom_unfiltered(_, _, _, _)
SearchFrom_unfiltered(fio, files, k, max_subs) ==
    IF k > Len(files) THEN {SearchResult(None, "No match", <<>>)}
    ELSE LET outcomes == iterative_match(fio, files[k], max_subs)
         IN  IF \E o \in outcomes : o.found
             THEN {SearchResult(files[k], o.method, o.variant_used) : o \in outcomes}
             ELSE SearchFrom_unfiltered(fio, files, k + 1, max_subs)

\* `for file in files:` from position k on: the results the loop can return
RECURSIVE SearchFrom(_, _, _, _)
SearchFrom(fio, files, k, max_subs) ==
    IF k > Len(files) THEN {SearchResult(None, "No match", <<>>)}
    ELSE IF ~IsImage(files[k]) THEN SearchFrom(fio, files, k + 1, max_subs)
    ELSE LET outcomes == iterative_match(fio, files[k], max_subs)
         IN  IF \E o \in outcomes : o.found
             THEN {SearchResult(files[k], o.method, o.variant_used) : o \in outcomes}
             ELSE SearchFrom(fio, files, k + 1, max_subs)

\* os.listdir(self.photo_folder) on a folder in state `dir`: the listing, or
\* the exception it raises
ListDir(dir) ==
    CASE dir.status = "ok" -> [raises |-> "none", files |-> dir.files]
      [] dir.status = "absent" -> [raises |-> "FileNotFoundError", files |-> <<>>]
      [] dir.status = "notdir" -> [raises |-> "NotADirectoryError", files |-> <<>>]
      [] dir.status = "denied" -> [raises |-> "PermissionError", files |-> <<>>]

\* search_photo_for_fio_iterative: [raises, results]; only FileNotFoundError
\* is caught, any other exception of os.listdir leaves the method
search_photo_for_fio_iterative(fio, dir, max_subs) ==
    LET listing == ListDir(dir)
    IN  IF listing.raises = "FileNotFoundError"
        THEN [raises |-> "none",
              results |-> {SearchResult(None, "Folder not found", <<>>)}]
        ELSE IF listing.raises # "none"
        THEN [raises |-> listing.raises, results |-> {}]
        ELSE [raises |-> "none",
              results |-> SearchFrom(fio, listing.files, 1, max_subs)]

(* ------------------------------ inputs -------------------------------- *)
MaxNames == 2
MaxFiles == 2
MaxRuns == 2
MaxFolderChanges == 1

\* max_subs=7, the default process leaves in force
DefaultMaxSubs == 7

\* cells of the Excel column, before str(x).strip()
Cells ==
    { <<"K1", "k">>,
      <<"k", " ", "k", " ", "k">>,
      <<"k1", " ", "k", " ", "K">>,
      <<" ", "k">> }

\* directory entries
Entries ==
    { <<"K", "k", ".", "P_", "N_", "G_">>,
      <<"k", " ", "k", ".", "j_", "p_", "e_", "g_">>,
      <<"k", " ", "k", " ", "k", ".", "t_", "x_", "t_">> }

SeqsUpTo(S, n) == UNION {[1..m -> S] : m \in 0..n}

NameColumns == SeqsUpTo(Cells, MaxNames)

\* listings: no entry twice, any order
Listings == {l \in SeqsUpTo(Entries, MaxFiles) : \A x, y \in DOMAIN l : l[x] = l[y] => x = y}

\* what is at self.photo_folder: a directory that can be listed ("ok"),
\* nothing ("absent"), something that is no directory ("notdir") or a
\* directory that may not be read ("denied"); files is what a listing
\* returns whenever the status is "ok"
FolderStatus == {"ok", "absent", "notdir", "denied"}
Folders == [status : FolderStatus, files : Listings]

\* what is at self.excel_file: a sheet with the column, a sheet without it
\* ("nocolumn"), or nothing ("missing")
ExcelFiles ==
    {[status |-> "ok", column |-> c] : c \in NameColumns} \cup
    {[status |-> s, column |-> <<>>] : s \in {"nocolumn", "missing"}}

(* ------------------------------- state -------------------------------- *)
VARIABLES
    names_list,      \* self.names_list
    matched_list,    \* self.matched_list
    unmatched_list,  \* self.unmatched_list
    pc,              \* where process is: "idle", "loop", "done", "raised"
    i,               \* the loop's sequence number
    raised,          \* the exception that left process, "none" if none
    folder,          \* the file system at self.photo_folder
    excel,           \* the file system at self.excel_file
    runs,            \* calls of process on this object
    folder_changes,  \* changes of the folder since the object was built
    listed,          \* this run's os.listdir calls: the folder each one saw
    returned,        \* this run's results of search_photo_for_fio_iterative
    first_run,       \* names and lists as the object's first run left them
    call,            \* pure-function calls: "none", "args", "variants", "match"
    arg_fio, arg_filename, arg_max_subs,
    ret_variants, ret_match

batch_vars == <<names_list, matched_list, unmatched_list, pc, i, raised, folder,
                excel, runs, folder_changes, listed, returned, first_run>>
call_vars == <<call, arg_fio, arg_filename, arg_max_subs, ret_variants, ret_match>>
vars == <<batch_vars, call_vars>>

NoFirstRun == [done |-> FALSE, names |-> <<>>, matched |-> <<>>, unmatched |-> <<>>]

\* FioPhotoMatcher.__init__
Constructed ==
    /\ names_list = <<>>
    /\ matched_list = <<>>
    /\ unmatched_list = <<>>
    /\ pc = "idle"
    /\ i = 0
    /\ raised = "none"
    /\ runs = 0
    /\ folder_changes = 0
    /\ listed = <<>>
    /\ returned = <<>>
    /\ first_run = NoFirstRun

NoCall ==
    /\ call = "none"
    /\ arg_fio = <<>>
    /\ arg_filename = <<>>
    /\ arg_max_subs = 1
    /\ ret_variants = {}
    /\ ret_match = Outcome(FALSE, "none", <<>>)

Init ==
    /\ Constructed
    /\ folder \in Folders
    /\ excel \in ExcelFiles
    /\ NoCall

(* ------------------------------ actions ------------------------------- *)
\* App.start_processing builds a new matcher once the handler of the
\* previous click has returned, and only if the Excel file exists and the
\* photo folder is a directory
NewMatcher ==
    /\ pc \in {"done", "raised"}
    /\ excel.status # "missing"
    /\ folder.status \in {"ok", "denied"}
    /\ names_list' = <<>>
    /\ matched_list' = <<>>
    /\ unmatched_list' = <<>>
    /\ pc' = "idle"
    /\ i' = 0
    /\ raised' = "none"
    /\ runs' = 0
    /\ folder_changes' = 0
    /\ listed' = <<>>
    /\ returned' = <<>>
    /\ first_run' = NoFirstRun
    /\ UNCHANGED <<folder, excel, call_vars>>

\* read_fio_from_excel: the new value of self.names_list
ReadFio(column) == [x \in DOMAIN column |-> Strip(column[x])]

\* process up to the loop: the names are read; an empty list returns
ProcessBegin(names) ==
    /\ pc \in {"idle", "done", "raised"}
    /\ runs < MaxRuns
    /\ runs' = runs + 1
    /\ names_list' = names
    /\ raised' = "none"
    /\ listed' = <<>>
    /\ returned' = <<>>
    /\ IF names = <<>>
       THEN /\ pc' = "done"
            /\ i' = 0
            /\ first_run' = IF runs = 0
                            THEN [done |-> TRUE, names |-> names,
                                  matched |-> matched_list, unmatched |-> unmatched_list]
                            ELSE first_run
       ELSE /\ pc' = "loop"
            /\ i' = 1
            /\ first_run' = first_run
    /\ UNCHANGED <<matched_list, unmatched_list, folder, excel, folder_changes, call_vars>>

\* process: the Excel file has the column
ProcessRead ==
    /\ excel.status = "ok"
    /\ ProcessBegin(ReadFio(excel.column))

\* process: the Excel file is missing or has no such column; names_list
\* keeps what it held
ProcessNoRead ==
    /\ excel.status \in {"nocolumn", "missing"}
    /\ ProcessBegin(names_list)

\* one pass of the loop body of process, for sequence number i; after the
\* last one process returns
ProcessName ==
    /\ pc = "loop"
    /\ LET fio == names_list[i]
           search == search_photo_for_fio_iterative(fio, folder, DefaultMaxSubs)
           last == (i = Len(names_list))
       IN  /\ listed' = Append(listed, folder)
           /\ IF search.raises # "none"
              THEN /\ pc' = "raised"
                   /\ raised' = search.raises
                   /\ UNCHANGED <<matched_list, unmatched_list, i, returned, first_run>>
              ELSE \E res \in search.results :
                   LET matched2 == IF res.file # None
                                   THEN Append(matched_list,
                                               [number |-> i, name |-> fio, file |-> res.file,
                                                rule |-> res.method,
                                                variant_used |-> res.variant_used])
                                   ELSE matched_list
                       unmatched2 == IF res.file # None
                                     THEN unmatched_list
                                     ELSE Append(unmatched_list, [number |-> i, name |-> fio])
                   IN  /\ matched_list' = matched2
                       /\ unmatched_list' = unmatched2
                       /\ returned' = Append(returned, res)
                       /\ i' = i + 1
                       /\ pc' = IF last THEN "done" ELSE "loop"
                       /\ raised' = "none"
                       /\ first_run' = IF last /\ runs = 1
                                       THEN [done |-> TRUE, names |-> names_list,
                                             matched |-> matched2, unmatched |-> unmatched2]
                                       ELSE first_run
    /\ UNCHANGED <<names_list, folder, excel, runs, folder_changes, call_vars>>

\* the environment: the photo folder is removed, created, replaced by a
\* file, or its permissions change, while process runs (a change between two
\* runs is a change before the first pass of the second)
FolderChange ==
    /\ pc = "loop"
    /\ folder_changes < MaxFolderChanges
    /\ folder_changes' = folder_changes + 1
    /\ \E s \in FolderStatus \ {folder.status} : folder' = [folder EXCEPT !.status = s]
    /\ UNCHANGED <<names_list, matched_list, unmatched_list, pc, i, raised, excel, runs,
                   listed, returned, first_run, call_vars>>

Next ==
    \/ NewMatcher
    \/ ProcessRead
    \/ ProcessNoRead
    \/ ProcessName
    \/ FolderChange

Spec == Init /\ [][Next]_vars

(* ---------------- the pure functions, called on their own -------------- *)
\* names are written in an upper-case key of char_mapping and spaces;
\* stems in its lower-case form, the upper-case letter it maps to, and spaces
FioAlphabet == {"K1", " "}
StemAlphabet == {"k1", "K", " "}
StrAlphabet == {"K1", "U1", "U2", "k"}

FioInputs == SeqsUpTo(FioAlphabet, MaxFioLen)
\* file names: every stem with an extension, the short ones without also
FilenameInputs ==
    {stem \o EXT_JPG : stem \in SeqsUpTo(StemAlphabet, MaxStemLen)} \cup
    {stem \in SeqsUpTo(StemAlphabet, MaxStemLen) : Len(stem) <= 2}
StrInputs == SeqsUpTo(StrAlphabet, MaxStrLen)

InitMatch ==
    /\ Constructed
    /\ folder = [status |-> "ok", files |-> <<>>]
    /\ excel = [status |-> "missing", column |-> <<>>]
    /\ call = "args"
    /\ arg_fio \in FioInputs
    /\ arg_filename \in FilenameInputs
    /\ arg_max_subs \in 1..MaxSubs
    /\ ret_variants = {}
    /\ ret_match = Outcome(FALSE, "none", <<>>)

\* a call of iterative_match(fio, filename, max_subs)
CallIterativeMatch ==
    /\ call = "args"
    /\ call' = "match"
    /\ ret_match' \in iterative_match(arg_fio, arg_filename, arg_max_subs)
    /\ UNCHANGED <<batch_vars, arg_fio, arg_filename, arg_max_subs, ret_variants>>

SpecMatch == InitMatch /\ [][CallIterativeMatch]_vars

InitVariants ==
    /\ Constructed
    /\ folder = [status |-> "ok", files |-> <<>>]
    /\ excel = [status |-> "missing", column |-> <<>>]
    /\ call = "args"
    /\ arg_fio \in StrInputs
    /\ arg_filename = <<>>
    /\ arg_max_subs \in 1..MaxK
    /\ ret_variants = {}
    /\ ret_match = Outcome(FALSE, "none", <<>>)

\* a call of generate_variants_combinations(s, self.char_mapping, max_subs)
CallGenerateVariants ==
    /\ call = "args"
    /\ call' = "variants"
    /\ ret_variants' = generate_variants_combinations(arg_fio, char_mapping, arg_max_subs)
    /\ UNCHANGED <<batch_vars, arg_fio, arg_filename, arg_max_subs, ret_match>>

SpecVariants == InitVariants /\ [][CallGenerateVariants]_vars

(* ----------------------------- properties ----------------------------- *)
FullExact == "Full FIO exact"
FullSubst == "Full FIO substitution (combination)"
ShortExact == "Short FIO exact"
ShortSubst == "Short FIO substitution (combination)"

\* a string is a case-insensitive substring of the stem of a file name
InStem(str, filename) == Contains(Lower(str), Lower(remove_extension(filename)))

\* the conditions of the four rules, in their order
RuleHolds(n, fio, filename, max_subs) ==
    CASE n = 1 -> InStem(fio, filename)
      [] n = 2 -> \E v \in generate_variants_combinations(fio, char_mapping, max_subs) :
                     InStem(v, filename)
      [] n = 3 -> InStem(shorten_fio(fio), filename)
      [] n = 4 -> \E v \in generate_variants_combinations(shorten_fio(fio), char_mapping,
                                                         max_subs) :
                     InStem(v, filename)

RuleName(n) ==
    CASE n = 1 -> FullExact [] n = 2 -> FullSubst [] n = 3 -> ShortExact [] n = 4 -> ShortSubst

\* C1: iterative_match reports the lowest-numbered rule whose condition
\* holds (full exact, full variant, short exact, short variant); a stem that
\* contains the full name always gives "Full FIO exact"; the result is
\* "No match" only when none of the four conditions holds.
C1_RulePrecedence ==
    call = "match" =>
        LET holding == {n \in 1..4 : RuleHolds(n, arg_fio, arg_filename, arg_max_subs)}
        IN  /\ ret_match.found <=> holding # {}
            /\ holding = {} => ret_match.method = "No match"
            /\ holding # {} =>
                   ret_match.method = RuleName(CHOOSE n \in holding : \A m \in holding : n <= m)
            /\ InStem(arg_fio, arg_filename) => ret_match.method = FullExact

\* a stem that contains the full name and a variant of it as well: the exact
\* rule is the one reported
C1_Witness ==
    /\ call = "match"
    /\ arg_fio # <<>>
    /\ RuleHolds(1, arg_fio, arg_filename, arg_max_subs)
    /\ RuleHolds(2, arg_fio, arg_filename, arg_max_subs)
    /\ RuleHolds(4, arg_fio, arg_filename, arg_max_subs)
    /\ ret_match.method = FullExact

\* the matching entries of a listing: image entries some rule accepts
MatchingEntries(fio, files, max_subs) ==
    {x \in 1..Len(files) :
        /\ IsImage(files[x])
        /\ \E n \in 1..4 : RuleHolds(n, fio, files[x], max_subs)}

\* C2: on a readable listing search_photo_for_fio_iterative returns the first
\* entry in listing order, among those ending in .jpg, .jpeg or .png whatever
\* the case, that iterative_match accepts, with that entry's rule and
\* variant; "No match" exactly when no such entry exists.
C2_FirstMatch ==
    \A n \in 1..Len(returned) :
        listed[n].status = "ok" =>
            LET files == listed[n].files
                hits == MatchingEntries(names_list[n], files, DefaultMaxSubs)
                res == returned[n]
            IN  IF hits = {}
                THEN res.file = None /\ res.method = "No match"
                ELSE LET first == CHOOSE x \in hits : \A y \in hits : x <= y
                     IN  /\ res.file = files[first]
                         /\ IsImage(res.file)
                         /\ Outcome(TRUE, res.method, res.variant_used)
                                \in iterative_match(names_list[n], files[first], DefaultMaxSubs)

\* the second entry of a listing is returned, the first being an image entry
\* that no rule accepts, or an entry of another extension that contains the name
C2_Witness ==
    \E n \in 1..Len(returned) :
        /\ listed[n].status = "ok"
        /\ Len(listed[n].files) = 2
        /\ returned[n].file = listed[n].files[2]
        /\ ~IsImage(listed[n].files[1])
        /\ InStem(names_list[n], listed[n].files[1])

\* C3: once process has returned, each sequence number 1..N is in exactly
\* one record of matched_list and unmatched_list together, with the name at
\* that position, and both lists are in increasing sequence-number order.
C3_Partition ==
    pc = "done" =>
        /\ \A n \in 1..Len(names_list) :
               Cardinality({x \in DOMAIN matched_list : matched_list[x].number = n})
             + Cardinality({x \in DOMAIN unmatched_list : unmatched_list[x].number = n}) = 1
        /\ \A x \in DOMAIN matched_list :
               /\ matched_list[x].number \in 1..Len(names_list)
               /\ matched_list[x].name = names_list[matched_list[x].number]
        /\ \A x \in DOMAIN unmatched_list :
               /\ unmatched_list[x].number \in 1..Len(names_list)
               /\ unmatched_list[x].name = names_list[unmatched_list[x].number]
        /\ \A x, y \in DOMAIN matched_list :
               x < y => matched_list[x].number < matched_list[y].number
        /\ \A x, y \in DOMAIN unmatched_list :
               x < y => unmatched_list[x].number < unmatched_list[y].number

\* the folder was absent at every listing of the run that has just returned
FolderMissingAllRun ==
    /\ pc = "done"
    /\ Len(names_list) >= 1
    /\ Len(listed) = Len(names_list)
    /\ \A n \in DOMAIN listed : listed[n].status = "absent"

FolderNotFoundReports == {n \in DOMAIN returned : returned[n].method = "Folder not found"}

\* C4: when the folder is missing for the whole run every name is recorded
\* as unmatched and the missing folder is reported once for the run, not
\* once per name.
C4_SingleSignal ==
    FolderMissingAllRun =>
        /\ \A n \in DOMAIN returned : returned[n].file = None
        /\ Cardinality(FolderNotFoundReports) = 1

\* C5: once the directory search has reported the missing folder for a
\* name, every later name of the run is recorded as unmatched, whatever the
\* folder is by then.
C5_MissingLatches ==
    \A m, n \in DOMAIN returned :
        (m < n /\ returned[m].method = "Folder not found") => returned[n].file = None

\* C6: whenever the folder cannot be listed, whatever the cause, the
\* directory search returns the "Folder not found" result and process is not
\* aborted.
C6_AnyListingFailure ==
    /\ pc # "raised"
    /\ \A n \in DOMAIN listed :
           listed[n].status # "ok" =>
               /\ n <= Len(returned)
               /\ returned[n].method = "Folder not found"
               /\ returned[n].method # "No match"

\* the positions of a string whose character is a mapping key
Mappable(s) == {x \in DOMAIN s : s[x] \in DOMAIN char_mapping}

\* the positions at which two strings of one length differ
Differing(s, v) == {x \in DOMAIN s : s[x] # v[x]}

\* binomial coefficient
RECURSIVE Binomial(_, _)
Binomial(n, r) ==
    IF r = 0 THEN 1 ELSE IF r > n THEN 0 ELSE Binomial(n - 1, r - 1) + Binomial(n - 1, r)

RECURSIVE SumBinomial(_, _)
SumBinomial(n, k) == IF k = 0 THEN 0 ELSE Binomial(n, k) + SumBinomial(n, k - 1)

\* C7: generate_variants_combinations(s, char_mapping, k) is exactly the set
\* of strings got from s by replacing the characters at a subset of 1..k of
\* its mappable positions by their mapped values; no two subsets give the
\* same string; every element differs from s at 1..k mappable positions
\* only; s is not an element; the result is empty when s has no mappable
\* character; k above the number of mappable positions gives what k equal to
\* that number gives.
C7_ExactVariants ==
    call = "variants" =>
        LET s == arg_fio
            k == arg_max_subs
            n == Cardinality(Mappable(s))
            chosen == {c \in SUBSET Mappable(s) : Cardinality(c) \in 1..k}
        IN  /\ ret_variants =
                   {[x \in DOMAIN s |-> IF x \in c THEN char_mapping[s[x]] ELSE s[x]] : c \in chosen}
            /\ Cardinality(ret_variants) = SumBinomial(n, IF k < n THEN k ELSE n)
            /\ \A v \in ret_variants :
                   /\ Len(v) = Len(s)
                   /\ Differing(s, v) \subseteq Mappable(s)
                   /\ Cardinality(Differing(s, v)) \in 1..k
                   /\ \A x \in Differing(s, v) : v[x] = char_mapping[s[x]]
            /\ s \notin ret_variants
            /\ n = 0 => ret_variants = {}
            /\ k > n => ret_variants = generate_variants_combinations(s, char_mapping, n)

\* a string with three mappable positions and k = 2: the variants with one
\* and with two substitutions are there, the one with three is not
C7_Witness ==
    /\ call = "variants"
    /\ Cardinality(Mappable(arg_fio)) = 3
    /\ arg_max_subs = 2
    /\ Cardinality(ret_variants) = 6
    /\ \E v \in ret_variants : Cardinality(Differing(arg_fio, v)) = 2

\* the fields of a match record that do not depend on the order of a set
Stable(rec) == [number |-> rec.number, name |-> rec.name, file |-> rec.file, rule |-> rec.rule]

\* C8: process run a second time on the same name list and an unchanged
\* folder leaves matched_list and unmatched_list as the first run left them:
\* same length, numbers, names, files and rules.
C8_Idempotent ==
    ( /\ pc = "done"
      /\ runs = 2
      /\ first_run.done
      /\ first_run.names = names_list
      /\ folder_changes = 0 ) =>
        /\ Len(matched_list) = Len(first_run.matched)
        /\ \A x \in DOMAIN matched_list : Stable(matched_list[x]) = Stable(first_run.matched[x])
        /\ unmatched_list = first_run.unmatched

\* C9: every record of matched_list names an image file, its variant_used
\* is a case-insensitive substring of the file's stem, and variant_used is
\* what its rule says: the name, a generated variant of the name, the
\* shortened name, or a generated variant of the shortened name.
C9_RecordsSound ==
    \A x \in DOMAIN matched_list :
        LET rec == matched_list[x]
        IN  /\ IsImage(rec.file)
            /\ InStem(rec.variant_used, rec.file)
            /\ rec.rule \in {FullExact, FullSubst, ShortExact, ShortSubst}
            /\ rec.rule = FullExact => rec.variant_used = rec.name
            /\ rec.rule = FullSubst =>
                   rec.variant_used \in
                       generate_variants_combinations(rec.name, char_mapping, DefaultMaxSubs)
            /\ rec.rule = ShortExact => rec.variant_used = shorten_fio(rec.name)
            /\ rec.rule = ShortSubst =>
                   rec.variant_used \in
                       generate_variants_combinations(shorten_fio(rec.name), char_mapping,
                                                      DefaultMaxSubs)

\* matched_list holds a record of the full-name substitution rule and one
\* of the short-name substitution rule
C9_Witness ==
    /\ \E x \in DOMAIN matched_list :
           /\ matched_list[x].rule = FullSubst
           /\ matched_list[x].variant_used # matched_list[x].name
    /\ \E x \in DOMAIN matched_list :
           /\ matched_list[x].rule = ShortSubst
           /\ matched_list[x].variant_used # shorten_fio(matched_list[x].name)

\* C10: for a name whose shortened form is the name itself iterative_match
\* never reports a short-name rule.
C10_NoShortRule ==
    (call = "match" /\ shorten_fio(arg_fio) = arg_fio) =>
        ret_match.method \notin {ShortExact, ShortSubst}

\* a two-component name, equal to its shortened form, found by substitution
C10_Witness ==
    /\ call = "match"
    /\ shorten_fio(arg_fio) = arg_fio
    /\ Len(Split(arg_fio)) = 2
    /\ ret_match.method = FullSubst

====
